---- MODULE Spec2Model ----
(***************************************************************************)
(* Quotefault backend: the quote store, its visibility rules and the       *)
(* moderation workflow of src/api/endpoints.rs, as a state machine over    *)
(* the relational tables the handlers read and write.                      *)
(***************************************************************************)
EXTENDS Integers, Sequences, FiniteSets, TLC

\* ------------------------------------------------------------------ bounds
MaxQuotes == 2
MaxReports == 2
MaxVotes == 1
MaxFavorites == 1
MaxLeft == 1
MaxViewReports == 1
MaxModerationQuotes == 1
NProcs == 2

\* --------------------------------------------------------- program constants
MaxShards == 6
MinReasonLen == 10
DefaultLimit == 10

\* ------------------------------------------------------------ sample inputs
\* Option<T>: None, or Some(v).
None == <<>>
Some(v) == <<v>>

Users == {"alice", "bob", "carol", "dave"}
Admins == {"dave"}

\* A text is the sequence of the UTF-8 byte widths of its characters: Rust's
\* String::len counts bytes, Len counts characters.
Ascii(n) == [i \in 1..n |-> 1]
ShortReason == Ascii(3)
LongReason == Ascii(10)
OtherReason == Ascii(11)
WideReason == <<3, 3, 3, 3>>
Reasons == {ShortReason, LongReason, OtherReason, WideReason}

\* A shard body is a sequence of characters.
Hi == <<"H", "i">>
Bye == <<"b", "y", "e">>

Shard(speaker, body) == [speaker |-> speaker, body |-> body]
NewQuotes ==
    { <<>>,
      <<Shard("bob", Hi)>>,
      <<Shard("carol", Bye), Shard("bob", Hi)>>,
      [i \in 1..(MaxShards + 1) |-> Shard("bob", Hi)] }

Votes == {"upvote", "downvote"}
Procs == 1..NProcs
QuoteIds == 1..(MaxQuotes + 1)

\* ------------------------------------------------------------------- state
VARIABLES
    SECURITY_ENABLED, \* auth::SECURITY_ENABLED, fixed for the process lifetime
    members,          \* directory: the identifiers that resolve to a display name
    nextId,           \* next value of the quotes id sequence
    nextReportId,     \* next value of the reports id sequence
    quotes,           \* table quotes: [id, submitter, timestamp]
    shards,           \* table shards: [quote_id, index, body, speaker]
    votes,            \* table votes: [quote_id, submitter, vote]
    favorites,        \* table favorites: [quote_id, username]
    reports,          \* table reports: [id, quote_id, reason, submitter_hash, resolver]
    hidden,           \* table hidden, rows in insertion order: [quote_id, reason, actor]
    tx,               \* per connection: the open transaction of hide_quote / resolve_report
    pings             \* send_ping calls of the handler that ran last: [speaker, ok]

db == <<quotes, shards, votes, favorites, reports, hidden>>
vars == <<SECURITY_ENABLED, members, nextId, nextReportId, quotes, shards, votes,
          favorites, reports, hidden, tx, pings>>

\* ---------------------------------------------------------------- responses
Ok == [status |-> 200, body |-> ""]
BadRequest(msg) == [status |-> 400, body |-> msg]
NotFound(msg) == [status |-> 404, body |-> msg]
InternalServerError == [status |-> 500, body |-> "SQLX Error"]

\* An open transaction: the handler, its caller and arguments (hide: the hide
\* parameter of resolve_report), the report rows its UPDATE has rewritten and
\* whether its INSERT INTO hidden has run, both uncommitted.
NoTx == [op |-> "none", user |-> "", id |-> 0, reason |-> <<>>, hide |-> None,
         updated |-> {}, inserted |-> FALSE]

\* ----------------------------------------------------------------- helpers
RECURSIVE Sum(_)
Sum(s) == IF s = <<>> THEN 0 ELSE Head(s) + Sum(Tail(s))

\* String::len: the length in bytes.
len(text) == Sum(text)
\* The number of characters.
chars(text) == Len(text)

Range(s) == {s[i] : i \in DOMAIN s}

QuoteIdsStored == {q.id : q \in quotes}
HiddenIds == {hidden[i].quote_id : i \in DOMAIN hidden}
HiddenRows(id) == {i \in DOMAIN hidden : hidden[i].quote_id = id}
Speakers(id) == {s.speaker : s \in {x \in shards : x.quote_id = id}}
Submitter(id) == (CHOOSE q \in quotes : q.id = id).submitter

\* user.admin() || !*SECURITY_ENABLED
Privileged(user) == user \in Admins \/ ~SECURITY_ENABLED

\* Sha3_256 of the reporter's name and the salt: injective on the names used.
submitter_hash(user) == <<"sha3_256", user, "coleandethanwerehere">>

Min(a, b) == IF a < b THEN a ELSE b
Take(s, n) == SubSeq(s, 1, Min(n, Len(s)))

RECURSIVE Concat(_)
Concat(ss) == IF ss = <<>> THEN <<>> ELSE Head(ss) \o Concat(Tail(ss))

\* ORDER BY timestamp DESC, id DESC over a set of quote rows.
Newer(a, b) == a.timestamp > b.timestamp \/ (a.timestamp = b.timestamp /\ a.id > b.id)
RECURSIVE OrderByTimestampDesc(_)
OrderByTimestampDesc(S) ==
    IF S = {} THEN <<>>
    ELSE LET top == CHOOSE a \in S : \A b \in S \ {a} : Newer(a, b)
         IN <<top>> \o OrderByTimestampDesc(S \ {top})

\* ORDER BY id DESC over a set of quote rows.
RECURSIVE OrderByIdDesc(_)
OrderByIdDesc(S) ==
    IF S = {} THEN <<>>
    ELSE LET top == CHOOSE a \in S : \A b \in S : a.id >= b.id
         IN <<top>> \o OrderByIdDesc(S \ {top})

\* ORDER BY s.index over the shards of one quote.
RECURSIVE OrderByIndex(_)
OrderByIndex(S) ==
    IF S = {} THEN <<>>
    ELSE LET first == CHOOSE a \in S : \A b \in S : a.index <= b.index
         IN <<first>> \o OrderByIndex(S \ {first})

\* ------------------------------------------------------------- text matching
Lower(c) == IF c = "H" THEN "h" ELSE IF c = "I" THEN "i" ELSE c
LowerText(t) == [i \in DOMAIN t |-> Lower(t[i])]
Contains(t, sub) ==
    \E i \in 0..(Len(t) - Len(sub)) : SubSeq(t, i + 1, i + Len(sub)) = sub
\* body ILIKE '%q%' for a q without wildcard characters; the pattern "%" when q is absent.
ILike(body, q) == q = None \/ Contains(LowerText(body), LowerText(q[1]))
\* column LIKE pattern for a pattern that is "%" or a plain name.
Like(value, pattern) == pattern = "%" \/ value = pattern
UnwrapOr(v, default) == IF v = None THEN default ELSE v[1]

\* ------------------------------------------------------- the joined result rows
\* SUM(CASE vote ... END) GROUP BY quote_id, 0 when the quote has no votes.
Score_CountsRows(id) == Cardinality({v \in votes : v.quote_id = id})
Score(id) ==
    Cardinality({v \in votes : v.quote_id = id /\ v.vote = "upvote"})
    - Cardinality({v \in votes : v.quote_id = id /\ v.vote = "downvote"})

ViewerVote(id, user) ==
    LET mine == {v \in votes : v.quote_id = id /\ v.submitter = user}
    IN IF mine = {} THEN None ELSE Some((CHOOSE v \in mine : TRUE).vote)

Favorited(id, user) == \E f \in favorites : f.quote_id = id /\ f.username = user

\* The rows of one selected quote: LEFT JOIN hidden, LEFT JOIN shards, ORDER BY s.index.
QuoteRows(pq, user) ==
    LET hiddenRows == IF HiddenRows(pq.id) = {}
                      THEN <<[reason |-> None, actor |-> None]>>
                      ELSE LET found == SelectSeq(hidden, LAMBDA h : h.quote_id = pq.id)
                           IN [j \in DOMAIN found |-> [reason |-> Some(found[j].reason),
                                                       actor |-> Some(found[j].actor)]]
        ofQuote == OrderByIndex({s \in shards : s.quote_id = pq.id})
        Row(s, h) == [id |-> pq.id, index |-> s.index, submitter |-> pq.submitter,
                      timestamp |-> pq.timestamp, body |-> s.body, speaker |-> s.speaker,
                      hidden_reason |-> h.reason, hidden_actor |-> h.actor,
                      vote |-> ViewerVote(pq.id, user), score |-> Score(pq.id),
                      favorited |-> Favorited(pq.id, user)]
    IN Concat([i \in DOMAIN ofQuote |->
                 [j \in DOMAIN hiddenRows |-> Row(ofQuote[i], hiddenRows[j])]])

\* The outer query: the selected quotes ORDER BY timestamp DESC, pq.id DESC, s.index.
JoinedRows(selected, user) ==
    LET ordered == OrderByTimestampDesc(selected)
    IN Concat([i \in DOMAIN ordered |-> QuoteRows(ordered[i], user)])

\* ------------------------------------------------------------ shards_to_quotes
\* One pass over the rows; a row whose speaker (or, on an index-1 row, whose
\* submitter) does not resolve is skipped; a row of index > 1 is pushed onto the
\* last quote of the output, and the unwrap of an empty output panics.
RECURSIVE ShardsLoop_Prepends(_, _, _)
ShardsLoop_Prepends(rows, out, directory) ==
    IF rows = <<>> THEN [panic |-> FALSE, quotes |-> out]
    ELSE LET shard == Head(rows)
             piece == [body |-> shard.body, speaker |-> shard.speaker]
         IN IF shard.speaker \notin directory
            THEN ShardsLoop_Prepends(Tail(rows), out, directory)
            ELSE IF shard.index = 1
            THEN IF shard.submitter \notin directory
                 THEN ShardsLoop_Prepends(Tail(rows), out, directory)
                 ELSE LET actor == IF shard.hidden_actor # None
                                      /\ shard.hidden_actor[1] \in directory
                                   THEN shard.hidden_actor ELSE None
                          quote == [id |-> shard.id,
                                    shards |-> <<piece>>,
                                    timestamp |-> shard.timestamp,
                                    score |-> shard.score,
                                    vote |-> shard.vote,
                                    submitter |-> shard.submitter,
                                    hidden |-> IF actor # None /\ shard.hidden_reason # None
                                               THEN Some([actor |-> actor[1],
                                                          reason |-> shard.hidden_reason[1]])
                                               ELSE None,
                                    favorited |-> shard.favorited]
                      IN ShardsLoop_Prepends(Tail(rows), Append(out, quote), directory)
            ELSE IF out = <<>>
            THEN [panic |-> TRUE, quotes |-> out]
            ELSE LET last == out[Len(out)]
                     grown == [last EXCEPT !.shards = <<piece>> \o @]
                 IN ShardsLoop_Prepends(Tail(rows), [out EXCEPT ![Len(out)] = grown],
                                        directory)
RECURSIVE ShardsLoop(_, _, _)
ShardsLoop(rows, out, directory) ==
    IF rows = <<>> THEN [panic |-> FALSE, quotes |-> out]
    ELSE LET shard == Head(rows)
             piece == [body |-> shard.body, speaker |-> shard.speaker]
         IN IF shard.speaker \notin directory
            THEN ShardsLoop(Tail(rows), out, directory)
            ELSE IF shard.index = 1
            THEN IF shard.submitter \notin directory
                 THEN ShardsLoop(Tail(rows), out, directory)
                 ELSE LET actor == IF shard.hidden_actor # None
                                      /\ shard.hidden_actor[1] \in directory
                                   THEN shard.hidden_actor ELSE None
                          quote == [id |-> shard.id,
                                    shards |-> <<piece>>,
                                    timestamp |-> shard.timestamp,
                                    score |-> shard.score,
                                    vote |-> shard.vote,
                                    submitter |-> shard.submitter,
                                    hidden |-> IF actor # None /\ shard.hidden_reason # None
                                               THEN Some([actor |-> actor[1],
                                                          reason |-> shard.hidden_reason[1]])
                                               ELSE None,
                                    favorited |-> shard.favorited]
                      IN ShardsLoop(Tail(rows), Append(out, quote), directory)
            ELSE IF out = <<>>
            THEN [panic |-> TRUE, quotes |-> out]
            ELSE LET last == out[Len(out)]
                     grown == [last EXCEPT !.shards = Append(@, piece)]
                 IN ShardsLoop(Tail(rows), [out EXCEPT ![Len(out)] = grown], directory)

\* ldap_ok: whether the batch lookup ldap::get_users answered.
shards_to_quotes(rows, ldap_ok) ==
    IF ~ldap_ok THEN [err |-> TRUE, panic |-> FALSE, quotes |-> <<>>]
    ELSE LET r == ShardsLoop(rows, <<>>, members)
         IN [err |-> FALSE, panic |-> r.panic, quotes |-> r.quotes]

\* The request was aborted by a panic of the handler: no response body.
Aborted == [status |-> 0, body |-> "panic"]
Json(value) == [status |-> 200, body |-> value]

\* ------------------------------------------------------------------ get_quote
Involved(q, user) == q.submitter = user \/ user \in Speakers(q.id)

\* The CASE of the inner SELECT of get_quote.
GetQuoteVisible_NoOverride(q, user) ==
    IF Privileged(user) THEN TRUE ELSE q.id \notin HiddenIds
GetQuoteVisible(q, user) ==
    IF Privileged(user) THEN TRUE
    ELSE IF q.id \in HiddenIds /\ Involved(q, user) THEN TRUE
    ELSE q.id \notin HiddenIds

get_quote(id, user, ldap_ok) ==
    LET selected == {q \in quotes : q.id = id /\ GetQuoteVisible(q, user)}
        rows == JoinedRows(selected, user)
    IN IF rows = <<>> THEN NotFound("Quote could not be found")
       ELSE LET r == shards_to_quotes(rows, ldap_ok)
            IN IF r.err THEN InternalServerError
               ELSE IF r.panic \/ r.quotes = <<>> THEN Aborted
               ELSE Json(r.quotes[1])

\* ----------------------------------------------------------------- get_quotes
\* The hidden CASE of the inner SELECT of get_quotes: $6 hidden, $7 filter_by_hidden,
\* $8 the viewer, $9 privileged.
GetQuotesVisible_AnyViewer(q, user, params) ==
    LET isHidden == q.id \in HiddenIds
        filter_by_hidden == params.hidden # None
        wantHidden == UnwrapOr(params.hidden, FALSE)
    IN IF filter_by_hidden /\ wantHidden THEN isHidden
       ELSE IF filter_by_hidden /\ ~wantHidden THEN ~isHidden
       ELSE (IF isHidden /\ Involved(q, user) THEN isHidden ELSE ~isHidden)
GetQuotesVisible(q, user, params) ==
    LET isHidden == q.id \in HiddenIds
        filter_by_hidden == params.hidden # None
        wantHidden == UnwrapOr(params.hidden, FALSE)
    IN IF filter_by_hidden /\ wantHidden /\ Privileged(user) THEN isHidden
       ELSE IF filter_by_hidden /\ wantHidden
            THEN (IF Involved(q, user) THEN isHidden ELSE FALSE)
       ELSE IF filter_by_hidden /\ ~wantHidden THEN ~isHidden
       ELSE (IF isHidden /\ Involved(q, user) THEN isHidden ELSE ~isHidden)

\* The remaining conjuncts of the WHERE clause.
GetQuotesMatches_InclusiveCursor(q, user, params) ==
    LET lt_qid == UnwrapOr(params.lt, 0)
        speaker == UnwrapOr(params.speaker, "%")
        submitter == UnwrapOr(params.submitter, "%")
        involved == UnwrapOr(params.involved, "%")
        favorited == UnwrapOr(params.favorited, FALSE)
        ofQuote == {s \in shards : s.quote_id = q.id}
    IN /\ (IF lt_qid > 0 THEN q.id <= lt_qid ELSE TRUE)
       /\ Like(q.submitter, submitter)
       /\ (Like(q.submitter, involved) \/ \E s \in ofQuote : Like(s.speaker, involved))
       /\ \E s \in ofQuote : ILike(s.body, params.q) /\ Like(s.speaker, speaker)
       /\ (IF favorited THEN Favorited(q.id, user) ELSE TRUE)
GetQuotesMatches(q, user, params) ==
    LET lt_qid == UnwrapOr(params.lt, 0)
        speaker == UnwrapOr(params.speaker, "%")
        submitter == UnwrapOr(params.submitter, "%")
        involved == UnwrapOr(params.involved, "%")
        favorited == UnwrapOr(params.favorited, FALSE)
        ofQuote == {s \in shards : s.quote_id = q.id}
    IN /\ (IF lt_qid > 0 THEN q.id < lt_qid ELSE TRUE)
       /\ Like(q.submitter, submitter)
       /\ (Like(q.submitter, involved) \/ \E s \in ofQuote : Like(s.speaker, involved))
       /\ \E s \in ofQuote : ILike(s.body, params.q) /\ Like(s.speaker, speaker)
       /\ (IF favorited THEN Favorited(q.id, user) ELSE TRUE)

\* limit: absent -> 10, -1 -> i64::MAX (every row), any other value as given.
Unlimited == -1
get_quotes(user, params, ldap_ok) ==
    LET limit == UnwrapOr(params.limit, DefaultLimit)
        matching == {q \in quotes : GetQuotesVisible(q, user, params)
                                    /\ GetQuotesMatches(q, user, params)}
        inner == OrderByIdDesc(matching)
        limited == IF limit = Unlimited THEN inner ELSE Take(inner, limit)
    IN IF limit < 0 /\ limit # Unlimited THEN InternalServerError
       ELSE LET r == shards_to_quotes(JoinedRows(Range(limited), user), ldap_ok)
            IN IF r.err THEN InternalServerError
               ELSE IF r.panic THEN Aborted
               ELSE Json(r.quotes)

\* ------------------------------------------------------------------ directory
\* ldap::get_quotable_members: the members that may be quoted.
get_quotable_members == members
\* ldap::users_exist: every identifier is in the directory.
users_exist(names) == names \subseteq members
\* utils::is_valid_username: the identifier format check.
is_valid_username(name) == name \in Users

\* A member leaves the organisation: the identifier no longer resolves.
LeaveOrg(user) ==
    /\ user \in members
    /\ members' = members \ {user}
    /\ UNCHANGED <<SECURITY_ENABLED, nextId, nextReportId, db, tx, pings>>

\* ----------------------------------------------------------- schema constraints
\* hidden.quote_id is unique.
HiddenUnique_Absent == FALSE
HiddenUnique == TRUE
\* reports (quote_id, submitter_hash) is unique.
ReportsUnique_Absent == FALSE
ReportsUnique == TRUE
\* votes (quote_id, submitter) is unique.
VotesUnique_Absent == FALSE
VotesUnique == TRUE
\* favorites (quote_id, username) is unique and quote_id references quotes.
FavoritesUnique == TRUE
FavoritesForeignKey == TRUE
\* ON DELETE CASCADE from quotes to shards, votes, favorites, reports and hidden.
CascadeDelete_Absent == FALSE
CascadeDelete == TRUE

\* A row lock or an uncommitted key held by another open transaction: the
\* statement that needs it waits until that transaction ends.
PendingHide(p, id) == \E o \in Procs \ {p} : tx[o].id = id /\ tx[o].inserted
PendingUpdate(p, ids) == \E o \in Procs \ {p} : tx[o].updated \cap ids # {}
Referenced(id) == \E o \in Procs : tx[o].op # "none" /\ tx[o].id = id

StoreOutcomes == {"ok", "open_failed", "statement_failed", "commit_failed"}
StatementFailed(store) == store = "open_failed" \/ store = "statement_failed"

\* --------------------------------------------------------------- create_quote
\* The first validation error of the loop over the shards, or None.
SpeakerError_FirstShardOnly(list, user, valid_speakers) ==
    IF \E i \in DOMAIN list : list[i].speaker \notin valid_speakers
    THEN Some(BadRequest("One or more speakers is unquotable"))
    ELSE IF \E i \in DOMAIN list : ~is_valid_username(list[i].speaker)
    THEN Some(BadRequest("Invalid speaker username format specified."))
    ELSE IF list # <<>> /\ user = list[1].speaker
    THEN Some(BadRequest("Erm... maybe don't quote yourself?"))
    ELSE None
RECURSIVE SpeakerError(_, _, _)
SpeakerError(list, user, valid_speakers) ==
    IF list = <<>> THEN None
    ELSE LET shard == Head(list)
         IN IF shard.speaker \notin valid_speakers
            THEN Some(BadRequest("One or more speakers is unquotable"))
            ELSE IF ~is_valid_username(shard.speaker)
            THEN Some(BadRequest("Invalid speaker username format specified."))
            ELSE IF user = shard.speaker
            THEN Some(BadRequest("Erm... maybe don't quote yourself?"))
            ELSE SpeakerError(Tail(list), user, valid_speakers)

\* The checks of create_quote before it opens its transaction.
CreateValidation(user, body, ldap_ok) ==
    IF body = <<>> THEN Some(BadRequest("No quote shards specified"))
    ELSE IF Len(body) > MaxShards THEN Some(BadRequest("Maximum of 6 shards exceeded."))
    ELSE IF ~ldap_ok THEN Some(InternalServerError)
    ELSE IF SpeakerError(body, user, get_quotable_members) # None
    THEN SpeakerError(body, user, get_quotable_members)
    ELSE IF ~is_valid_username(user)
    THEN Some(BadRequest("Invalid submitter username specified. SHOULD NEVER HAPPEN!"))
    ELSE IF ~users_exist({body[i].speaker : i \in DOMAIN body} \cup {user})
    THEN Some(BadRequest("Some users submitted do not exist."))
    ELSE None

\* The shard rows of a new quote: indices 1..=len in submission order.
NewShards_ZeroBased(id, body) ==
    {[quote_id |-> id, index |-> i - 1, body |-> body[i].body, speaker |-> body[i].speaker]
        : i \in DOMAIN body}
NewShards(id, body) ==
    {[quote_id |-> id, index |-> i, body |-> body[i].body, speaker |-> body[i].speaker]
        : i \in DOMAIN body}

create_quote_response(user, body, ldap_ok, store) ==
    IF CreateValidation(user, body, ldap_ok) # None THEN CreateValidation(user, body, ldap_ok)[1]
    ELSE IF store # "ok" THEN InternalServerError
    ELSE Ok

create_quote_PingsFirst(user, body, ldap_ok, store, pinged) ==
    /\ IF CreateValidation(user, body, ldap_ok) # None \/ store = "open_failed"
       THEN /\ pings' = <<>>
            /\ UNCHANGED <<nextId, db>>
       ELSE IF store # "ok"
       THEN /\ pings' = [i \in DOMAIN body |->
                           [speaker |-> body[i].speaker, ok |-> pinged[i]]]
            /\ nextId' = nextId + 1
            /\ UNCHANGED db
       ELSE /\ quotes' = quotes \cup
                  {[id |-> nextId, submitter |-> user, timestamp |-> nextId]}
            /\ shards' = shards \cup NewShards(nextId, body)
            /\ nextId' = nextId + 1
            /\ pings' = [i \in DOMAIN body |->
                           [speaker |-> body[i].speaker, ok |-> pinged[i]]]
            /\ UNCHANGED <<votes, favorites, reports, hidden>>
    /\ UNCHANGED <<SECURITY_ENABLED, members, nextReportId, tx>>
create_quote(user, body, ldap_ok, store, pinged) ==
    /\ IF CreateValidation(user, body, ldap_ok) # None \/ store = "open_failed"
       THEN /\ pings' = <<>>
            /\ UNCHANGED <<nextId, db>>
       ELSE IF store # "ok"
       THEN \* the id was drawn from the sequence, the transaction is rolled back
            /\ pings' = <<>>
            /\ nextId' = nextId + 1
            /\ UNCHANGED db
       ELSE /\ quotes' = quotes \cup
                  {[id |-> nextId, submitter |-> user, timestamp |-> nextId]}
            /\ shards' = shards \cup NewShards(nextId, body)
            /\ nextId' = nextId + 1
            /\ pings' = [i \in DOMAIN body |->
                           [speaker |-> body[i].speaker, ok |-> pinged[i]]]
            /\ UNCHANGED <<votes, favorites, reports, hidden>>
    /\ UNCHANGED <<SECURITY_ENABLED, members, nextReportId, tx>>

\* --------------------------------------------------------------- delete_quote
DeleteRowsAffected_Privileged(user, id) ==
    Cardinality({q \in quotes : q.id = id /\ (q.submitter = user \/ Privileged(user))})
DeleteRowsAffected(user, id) ==
    Cardinality({q \in quotes : q.id = id /\ q.submitter = user})

delete_quote_response(user, id, store) ==
    IF StatementFailed(store) THEN InternalServerError
    ELSE IF DeleteRowsAffected(user, id) = 0
    THEN BadRequest("Either this is not your quote or this quote does not exist.")
    ELSE IF store = "commit_failed" THEN InternalServerError
    ELSE Ok

delete_quote(user, id, store) ==
    /\ ~Referenced(id)
    /\ IF delete_quote_response(user, id, store) # Ok
       THEN UNCHANGED db
       ELSE /\ quotes' = {q \in quotes : q.id # id}
            /\ IF CascadeDelete
               THEN /\ shards' = {s \in shards : s.quote_id # id}
                    /\ votes' = {v \in votes : v.quote_id # id}
                    /\ favorites' = {f \in favorites : f.quote_id # id}
                    /\ reports' = {r \in reports : r.quote_id # id}
                    /\ hidden' = SelectSeq(hidden, LAMBDA h : h.quote_id # id)
               ELSE UNCHANGED <<shards, votes, favorites, reports, hidden>>
    /\ pings' = <<>>
    /\ UNCHANGED <<SECURITY_ENABLED, members, nextId, nextReportId, tx>>

\* ----------------------------------------------------------- hide_quote_by_id
\* The rows the INSERT ... SELECT ... WHERE selects: 0 or 1.
HideRowsSelected_SubmitterToo(id, user) ==
    IF id \in QuoteIdsStored
       /\ (Privileged(user) \/ \E q \in quotes : q.id = id /\ Involved(q, user))
    THEN 1 ELSE 0
HideRowsSelected(id, user) ==
    IF id \in QuoteIdsStored
       /\ (Privileged(user) \/ id \in {s.quote_id : s \in {x \in shards : x.speaker = user}})
    THEN 1 ELSE 0

\* The result of the statement and of the rows_affected test that follows it: the
\* insert of a second row for a quote is an error of the store.
hide_quote_by_id(id, user, reason) ==
    IF HideRowsSelected(id, user) = 0
    THEN [result |-> "Err", resp |-> BadRequest(
             "Either you are not quoted in this quote or this quote does not exist.")]
    ELSE IF HiddenUnique /\ id \in HiddenIds
    THEN [result |-> "Err", resp |-> InternalServerError]
    ELSE [result |-> "Ok", resp |-> Ok]

\* ----------------------------------------------------------------- hide_quote
\* The response of the handler when it ends before its commit, else None.
hide_quote_response(user, id, reason, store) ==
    IF len(reason) < MinReasonLen
    THEN Some(BadRequest("Reason must be at least 10 characters"))
    ELSE IF StatementFailed(store) THEN Some(InternalServerError)
    ELSE IF hide_quote_by_id(id, user, reason).result = "Err"
    THEN Some(hide_quote_by_id(id, user, reason).resp)
    ELSE None

\* The handler up to the end of its statement; a failure rolls the transaction back.
hide_quote(p, user, id, reason, store) ==
    /\ tx[p].op = "none"
    /\ len(reason) >= MinReasonLen /\ ~StatementFailed(store) /\ HideRowsSelected(id, user) = 1
         => ~PendingHide(p, id)
    /\ IF hide_quote_response(user, id, reason, store) # None
       THEN UNCHANGED tx
       ELSE tx' = [tx EXCEPT ![p] = [NoTx EXCEPT
                      !.op = "hide", !.user = user, !.id = id,
                      !.reason = reason, !.inserted = TRUE]]
    /\ pings' = <<>>
    /\ UNCHANGED <<SECURITY_ENABLED, members, nextId, nextReportId, db>>

\* ------------------------------------------------------------- resolve_report
OpenReports_AnyResolver(id) == {r \in reports : r.quote_id = id}
OpenReports(id) == {r \in reports : r.quote_id = id /\ r.resolver = None}

\* The response of the handler when its UPDATE ends it, else None.
resolve_report_response(user, id, store) ==
    IF StatementFailed(store) THEN Some(InternalServerError)
    ELSE IF OpenReports(id) = {}
    THEN Some(BadRequest("Report is either already resolved or doesn't exist."))
    ELSE None

\* UPDATE reports SET resolver ... RETURNING reason, fetch_one: every open report of
\* the quote is rewritten and the reason of the first returned row is kept.
resolve_report(p, user, id, hide, store) ==
    /\ tx[p].op = "none"
    /\ Privileged(user)
    /\ ~StatementFailed(store) => ~PendingUpdate(p, {r.id : r \in OpenReports(id)})
    /\ IF resolve_report_response(user, id, store) # None
       THEN UNCHANGED tx
       ELSE \E first \in OpenReports(id) :
              tx' = [tx EXCEPT ![p] = [NoTx EXCEPT
                        !.op = "resolve", !.user = user, !.id = id,
                        !.reason = first.reason, !.hide = hide,
                        !.updated = {r.id : r \in OpenReports(id)}]]
    /\ pings' = <<>>
    /\ UNCHANGED <<SECURITY_ENABLED, members, nextId, nextReportId, db>>

\* if let Some(true) = params.hide
HideRequested_IsSome(hide) == hide # None
HideRequested(hide) == hide = Some(TRUE)

\* The transaction ends with an error: nothing it wrote is kept.
Rollback_KeepsUpdate(p) ==
    /\ tx' = [tx EXCEPT ![p] = NoTx]
    /\ reports' = {IF r.id \in tx[p].updated THEN [r EXCEPT !.resolver = Some(tx[p].user)]
                   ELSE r : r \in reports}
    /\ UNCHANGED <<quotes, shards, votes, favorites, hidden>>
Rollback(p) ==
    /\ tx' = [tx EXCEPT ![p] = NoTx]
    /\ UNCHANGED db

\* The hide step of resolve_report: hide_quote_by_id inside the same transaction.
resolve_hide_response(p, store) ==
    IF store = "statement_failed" THEN Some(InternalServerError)
    ELSE IF hide_quote_by_id(tx[p].id, tx[p].user, tx[p].reason).result = "Err"
    THEN Some(hide_quote_by_id(tx[p].id, tx[p].user, tx[p].reason).resp)
    ELSE None

resolve_hide(p, store) ==
    /\ tx[p].op = "resolve" /\ HideRequested(tx[p].hide) /\ ~tx[p].inserted
    /\ store # "statement_failed" /\ HideRowsSelected(tx[p].id, tx[p].user) = 1
         => ~PendingHide(p, tx[p].id)
    /\ IF resolve_hide_response(p, store) # None
       THEN Rollback(p)
       ELSE /\ tx' = [tx EXCEPT ![p].inserted = TRUE]
            /\ UNCHANGED db
    /\ pings' = <<>>
    /\ UNCHANGED <<SECURITY_ENABLED, members, nextId, nextReportId>>

\* The end of Connection::transaction: commit on Ok.
Resolved_FirstOnly(r, t) ==
    IF r.id \in t.updated /\ r.reason = t.reason
    THEN [r EXCEPT !.resolver = Some(t.user)] ELSE r
Resolved(r, t) == IF r.id \in t.updated THEN [r EXCEPT !.resolver = Some(t.user)] ELSE r

commit_response(p, store) == IF store = "commit_failed" THEN InternalServerError ELSE Ok

commit(p, store) ==
    /\ tx[p].op # "none"
    /\ tx[p].op = "resolve" /\ HideRequested(tx[p].hide) => tx[p].inserted
    /\ IF commit_response(p, store) # Ok
       THEN Rollback(p)
       ELSE /\ reports' = {Resolved(r, tx[p]) : r \in reports}
            /\ hidden' = IF tx[p].inserted
                         THEN Append(hidden, [quote_id |-> tx[p].id, reason |-> tx[p].reason,
                                              actor |-> tx[p].user])
                         ELSE hidden
            /\ tx' = [tx EXCEPT ![p] = NoTx]
            /\ UNCHANGED <<quotes, shards, votes, favorites>>
    /\ pings' = <<>>
    /\ UNCHANGED <<SECURITY_ENABLED, members, nextId, nextReportId>>

\* --------------------------------------------------------------- report_quote
ReportRowsAffected_HiddenToo(user, id) ==
    IF /\ id \in QuoteIdsStored
       /\ ~(ReportsUnique /\ \E r \in reports :
               r.quote_id = id /\ r.submitter_hash = submitter_hash(user))
    THEN 1 ELSE 0
ReportRowsAffected(user, id) ==
    IF /\ id \in {q.id : q \in {x \in quotes : x.id \notin HiddenIds}}
       /\ ~(ReportsUnique /\ \E r \in reports :
               r.quote_id = id /\ r.submitter_hash = submitter_hash(user))
    THEN 1 ELSE 0

report_quote_response(user, id, store) ==
    IF StatementFailed(store) THEN InternalServerError
    ELSE IF ReportRowsAffected(user, id) = 0
    THEN BadRequest("You have already reported this quote or quote does not exist")
    ELSE IF store = "commit_failed" THEN InternalServerError
    ELSE Ok

report_quote(user, id, reason, store) ==
    /\ IF StatementFailed(store) \/ ReportRowsAffected(user, id) = 0
       THEN UNCHANGED <<db, nextReportId>>
       ELSE IF store = "commit_failed"
       THEN \* the id was drawn from the sequence, the transaction is rolled back
            /\ nextReportId' = nextReportId + 1
            /\ UNCHANGED db
       ELSE /\ reports' = reports \cup
                  {[id |-> nextReportId, quote_id |-> id, reason |-> reason,
                    submitter_hash |-> submitter_hash(user), resolver |-> None]}
            /\ nextReportId' = nextReportId + 1
            /\ UNCHANGED <<quotes, shards, votes, favorites, hidden>>
    /\ pings' = <<>>
    /\ UNCHANGED <<SECURITY_ENABLED, members, nextId, tx>>

\* ------------------------------------------------------- vote_quote, unvote_quote
\* $1 IN (SELECT id FROM quotes WHERE CASE WHEN $4 THEN true ELSE id NOT IN hidden END)
Votable(id, user) ==
    id \in {q.id : q \in {x \in quotes : IF Privileged(user) THEN TRUE
                                         ELSE x.id \notin HiddenIds}}

vote_quote_response(user, id, store) ==
    IF StatementFailed(store) THEN InternalServerError
    ELSE IF ~Votable(id, user) THEN BadRequest("Quote does not exist")
    ELSE IF store = "commit_failed" THEN InternalServerError
    ELSE Ok

vote_quote(user, id, vote, store) ==
    /\ IF vote_quote_response(user, id, store) # Ok
       THEN UNCHANGED db
       ELSE LET replaced == IF VotesUnique
                            THEN {v \in votes : v.quote_id = id /\ v.submitter = user}
                            ELSE {}
            IN /\ votes' = (votes \ replaced) \cup
                     {[quote_id |-> id, submitter |-> user, vote |-> vote]}
               /\ UNCHANGED <<quotes, shards, favorites, reports, hidden>>
    /\ pings' = <<>>
    /\ UNCHANGED <<SECURITY_ENABLED, members, nextId, nextReportId, tx>>

UnvoteRows(user, id) ==
    {v \in votes : v.quote_id = id /\ v.submitter = user /\ Votable(id, user)}

unvote_quote_response(user, id, store) ==
    IF StatementFailed(store) THEN InternalServerError
    ELSE IF Cardinality(UnvoteRows(user, id)) = 0 THEN BadRequest("Quote does not exist")
    ELSE IF store = "commit_failed" THEN InternalServerError
    ELSE Ok

unvote_quote(user, id, store) ==
    /\ IF unvote_quote_response(user, id, store) # Ok
       THEN UNCHANGED db
       ELSE /\ votes' = votes \ UnvoteRows(user, id)
            /\ UNCHANGED <<quotes, shards, favorites, reports, hidden>>
    /\ pings' = <<>>
    /\ UNCHANGED <<SECURITY_ENABLED, members, nextId, nextReportId, tx>>

\* ----------------------------------------------- favorite_quote, unfavorite_quote
\* INSERT ... VALUES: a duplicate key or a missing quote is an error of the store.
favorite_quote_response(user, id, store) ==
    IF StatementFailed(store) THEN InternalServerError
    ELSE IF FavoritesForeignKey /\ id \notin QuoteIdsStored THEN InternalServerError
    ELSE IF FavoritesUnique /\ Favorited(id, user) THEN InternalServerError
    ELSE IF store = "commit_failed" THEN InternalServerError
    ELSE Ok

favorite_quote(user, id, store) ==
    /\ IF favorite_quote_response(user, id, store) # Ok
       THEN UNCHANGED db
       ELSE /\ favorites' = favorites \cup {[quote_id |-> id, username |-> user]}
            /\ UNCHANGED <<quotes, shards, votes, reports, hidden>>
    /\ pings' = <<>>
    /\ UNCHANGED <<SECURITY_ENABLED, members, nextId, nextReportId, tx>>

UnfavoriteRows(user, id) == {f \in favorites : f.quote_id = id /\ f.username = user}

unfavorite_quote_response(user, id, store) ==
    IF StatementFailed(store) THEN InternalServerError
    ELSE IF Cardinality(UnfavoriteRows(user, id)) = 0 THEN BadRequest("Quote is not favorited.")
    ELSE IF store = "commit_failed" THEN InternalServerError
    ELSE Ok

unfavorite_quote(user, id, store) ==
    /\ IF unfavorite_quote_response(user, id, store) # Ok
       THEN UNCHANGED db
       ELSE /\ favorites' = favorites \ UnfavoriteRows(user, id)
            /\ UNCHANGED <<quotes, shards, votes, reports, hidden>>
    /\ pings' = <<>>
    /\ UNCHANGED <<SECURITY_ENABLED, members, nextId, nextReportId, tx>>

\* ------------------------------------------------------------ specifications
Init ==
    /\ SECURITY_ENABLED \in BOOLEAN
    /\ members = Users
    /\ nextId = 1
    /\ nextReportId = 1
    /\ quotes = {}
    /\ shards = {}
    /\ votes = {}
    /\ favorites = {}
    /\ reports = {}
    /\ hidden = <<>>
    /\ tx = [p \in Procs |-> NoTx]
    /\ pings = <<>>

Pinged(body) == [DOMAIN body -> BOOLEAN]
HideParams == {None, Some(TRUE), Some(FALSE)}

\* The bounded steps of the environment and of the handlers that add rows.
Leave(leavers) ==
    /\ Cardinality(Users \ members) < MaxLeft
    /\ \E user \in leavers : LeaveOrg(user)
Create(creators, bodies, stores, max) ==
    /\ nextId <= max
    /\ \E user \in creators, body \in bodies, ldap_ok \in BOOLEAN, store \in stores :
         \E pinged \in Pinged(body) : create_quote(user, body, ldap_ok, store, pinged)
Report(reporters, reasons, stores, max) ==
    /\ Cardinality(reports) < max
    /\ nextReportId <= max
    /\ \E user \in reporters, id \in QuoteIds, reason \in reasons, store \in stores :
         report_quote(user, id, reason, store)
Vote(voters, values, stores) ==
    \E user \in voters, id \in QuoteIds, vote \in values, store \in stores :
      /\ \/ Cardinality(votes) < MaxVotes
         \/ \E v \in votes : v.quote_id = id /\ v.submitter = user
      /\ vote_quote(user, id, vote, store)
Favorite(fans, stores) ==
    /\ Cardinality(favorites) < MaxFavorites
    /\ \E user \in fans, id \in QuoteIds, store \in stores : favorite_quote(user, id, store)

\* Every handler, every input, one connection.
Next ==
    \/ Leave(Users)
    \/ Create(Users, NewQuotes, StoreOutcomes, MaxQuotes)
    \/ \E user \in Users, id \in QuoteIds, store \in StoreOutcomes :
         delete_quote(user, id, store)
    \/ \E user \in Users, id \in QuoteIds, reason \in Reasons, store \in StoreOutcomes :
         hide_quote(1, user, id, reason, store)
    \/ \E user \in Users, id \in QuoteIds, hide \in HideParams, store \in StoreOutcomes :
         resolve_report(1, user, id, hide, store)
    \/ \E store \in StoreOutcomes : resolve_hide(1, store)
    \/ \E store \in StoreOutcomes : commit(1, store)
    \/ Report(Users, Reasons, StoreOutcomes, MaxReports)
    \/ Vote(Users, Votes, StoreOutcomes)
    \/ \E user \in Users, id \in QuoteIds, store \in StoreOutcomes :
         unvote_quote(user, id, store)
    \/ Favorite(Users, StoreOutcomes)
    \/ \E user \in Users, id \in QuoteIds, store \in StoreOutcomes :
         unfavorite_quote(user, id, store)

Spec == Init /\ [][Next]_vars

\* ------------------------------------------------------- SpecView: what a viewer sees
\* One connection serves creations, hides, reports resolved with hide, votes and
\* favorites, while a member may leave the directory.
\* The listing parameters: every combination of the filters below.
FetchParams ==
    [limit : {None, Some(Unlimited), Some(1)},
     lt : {None, Some(2)},
     q : {None, Some(<<"h", "i">>)},
     speaker : {None, Some("bob")},
     submitter : {None, Some("alice")},
     involved : {None, Some("carol")},
     hidden : {None, Some(TRUE), Some(FALSE)},
     favorited : {None, Some(TRUE)}]

\* The ids of the quotes a response carries.
ListedIds(r) == IF r.status = 200 THEN {r.body[i].id : i \in DOMAIN r.body} ELSE {}
Received(r, id) == r.status = 200 /\ r.body.id = id

NextView ==
    \/ Leave({"carol"})
    \/ Create({"alice", "carol"}, NewQuotes, {"ok", "commit_failed"}, MaxQuotes)
    \/ \E user \in {"alice", "bob", "dave"}, id \in QuoteIds,
          reason \in {ShortReason, LongReason} : hide_quote(1, user, id, reason, "ok")
    \/ \E store \in {"ok", "commit_failed"} : commit(1, store)
    \/ \E id \in QuoteIds : resolve_report(1, "dave", id, Some(TRUE), "ok")
    \/ resolve_hide(1, "ok")
    \/ Report({"carol"}, {LongReason}, {"ok"}, MaxViewReports)
    \/ Favorite({"carol"}, {"ok"})
    \/ Vote({"carol"}, {"upvote"}, {"ok"})
    \/ \E id \in QuoteIds : unvote_quote("carol", id, "ok")

SpecView == Init /\ [][NextView]_vars

\* C1: a viewer who is not privileged never receives, from get_quote or from
\* get_quotes under any combination of filters, a quote that has a hidden record,
\* unless the viewer is its submitter or the speaker of one of its shards.
C1_HiddenNeverLeaks ==
    \A quote \in quotes : quote.id \in HiddenIds =>
      \A viewer \in Users : ~Privileged(viewer) /\ ~Involved(quote, viewer) =>
        \A ldap_ok \in BOOLEAN :
          /\ ~Received(get_quote(quote.id, viewer, ldap_ok), quote.id)
          /\ \A params \in FetchParams :
               quote.id \notin ListedIds(get_quotes(viewer, params, ldap_ok))

\* A hidden quote that its submitter receives and an unrelated viewer does not.
C1_Witness ==
    \E quote \in quotes, viewer \in Users :
      /\ quote.id \in HiddenIds
      /\ ~Privileged(viewer) /\ ~Involved(quote, viewer)
      /\ ~Privileged(quote.submitter)
      /\ Received(get_quote(quote.id, quote.submitter, TRUE), quote.id)
      /\ get_quote(quote.id, viewer, TRUE).status = 404

\* The listing with no filter, and the same with an unlimited limit.
NoFilter == [limit |-> None, lt |-> None, q |-> None, speaker |-> None,
             submitter |-> None, involved |-> None, hidden |-> None, favorited |-> None]
NoFilterUnlimited == [NoFilter EXCEPT !.limit = Some(Unlimited)]

\* Every submitter and speaker of the stored quotes resolves in the directory.
AllNamesResolve ==
    {q.submitter : q \in quotes} \cup {s.speaker : s \in shards} \subseteq members

C3_PrivilegedReceivesAll ==
    AllNamesResolve =>
      \A quote \in quotes, viewer \in Users : Privileged(viewer) =>
        /\ Received(get_quote(quote.id, viewer, TRUE), quote.id)
        /\ quote.id \in ListedIds(get_quotes(viewer, NoFilterUnlimited, TRUE))

\* C4: vote_quote and unvote_quote on a stored quote are accepted exactly when
\* get_quote would show the quote to the caller (unvote: and the caller has a vote
\* on it), and are answered 'Quote does not exist' in every other case.
VisibleToCaller(id, user) == \E q \in quotes : q.id = id /\ GetQuoteVisible(q, user)
C4_VoteIffVisible ==
    \A user \in Users, id \in QuoteIdsStored :
      /\ vote_quote_response(user, id, "ok") =
           IF VisibleToCaller(id, user) THEN Ok ELSE BadRequest("Quote does not exist")
      /\ unvote_quote_response(user, id, "ok") =
           IF VisibleToCaller(id, user) /\ ViewerVote(id, user) # None
           THEN Ok ELSE BadRequest("Quote does not exist")

\* ------------------------------------------- SpecModeration: concurrent moderation
\* hide_quote and resolve_report transactions of several connections interleave
\* statement by statement, while quotes are created and reported.
NextModeration ==
    \/ Create({"alice"}, NewQuotes, {"ok"}, MaxModerationQuotes)
    \/ Report({"alice", "carol"}, {ShortReason, LongReason}, {"ok"}, MaxReports)
    \/ \E p \in Procs, user \in {"bob", "carol", "dave"}, id \in QuoteIds,
          reason \in {ShortReason, LongReason, WideReason}, store \in {"ok", "statement_failed"} :
         hide_quote(p, user, id, reason, store)
    \/ \E p \in Procs, user \in {"carol", "dave"}, id \in QuoteIds, hide \in HideParams,
          store \in {"ok", "statement_failed"} : resolve_report(p, user, id, hide, store)
    \/ \E p \in Procs, store \in {"ok", "statement_failed"} : resolve_hide(p, store)
    \/ \E p \in Procs, store \in {"ok", "commit_failed"} : commit(p, store)

SpecModeration == Init /\ [][NextModeration]_vars

AtMostOneHidden == \A id \in QuoteIds : Cardinality(HiddenRows(id)) <= 1
HiddenKept == \A i \in DOMAIN hidden : i \in DOMAIN hidden' /\ hidden'[i] = hidden[i]

\* C5: at most one hidden record exists per quote under every interleaving of
\* hide_quote and resolve_report(hide=true) transactions, and a record once inserted
\* is left unchanged by the transactions that lose.
C5_OneHiddenPerQuote == [][AtMostOneHidden' /\ HiddenKept]_vars

\* A quote was hidden by one transaction while a resolve_report(hide=true) of another
\* connection, begun before, has still to run its hide step on the same quote.
C5_Witness ==
    \E id \in QuoteIds, p \in Procs :
      /\ Cardinality(HiddenRows(id)) = 1
      /\ tx[p].op = "resolve" /\ tx[p].id = id
      /\ HideRequested(tx[p].hide) /\ ~tx[p].inserted

\* C6: a hide by an eligible caller of a quote that already has a hidden record is
\* answered with the bad-request rejection of hide_quote_by_id, not a store error.
C6_SecondHideIsConflict ==
    \A user \in Users, id \in QuoteIds, reason \in Reasons :
      id \in HiddenIds /\ HideRowsSelected(id, user) = 1 /\ len(reason) >= MinReasonLen =>
        hide_quote_response(user, id, reason, "ok") = Some(BadRequest(
          "Either you are not quoted in this quote or this quote does not exist."))

\* C7: the reason of every hidden record has at least 10 characters.
C7_HiddenReasonLength ==
    \A i \in DOMAIN hidden : chars(hidden[i].reason) >= MinReasonLen

\* C8: the commit of a resolve_report sets the caller as resolver of the reports its
\* UPDATE selected; with hide=true the quote then has exactly one hidden record, whose
\* reason is the stored reason of a report it resolved and whose actor is the caller;
\* with hide absent or false the hidden records are unchanged.
C8_ResolveEffect ==
    [][\A p \in Procs :
         tx[p].op = "resolve" /\ commit(p, "ok") =>
           /\ \A r \in reports : r.id \in tx[p].updated =>
                [r EXCEPT !.resolver = Some(tx[p].user)] \in reports'
           /\ IF tx[p].hide = Some(TRUE)
              THEN \E i \in DOMAIN hidden' :
                     /\ \A j \in DOMAIN hidden' : hidden'[j].quote_id = tx[p].id <=> j = i
                     /\ i \notin DOMAIN hidden
                     /\ hidden'[i].actor = tx[p].user
                     /\ hidden'[i].reason \in
                          {r.reason : r \in {x \in reports : x.id \in tx[p].updated}}
              ELSE hidden' = hidden]_vars

\* A report is resolved by the caller who hid the quote with the report's reason.
C8_Witness ==
    \E r \in reports, i \in DOMAIN hidden :
      /\ r.resolver # None
      /\ hidden[i].quote_id = r.quote_id
      /\ hidden[i].actor = r.resolver[1]
      /\ hidden[i].reason = r.reason

\* C9: when the hide step of a resolve_report fails, the transaction is rolled back:
\* the reports and the hidden records are as before the call and the reports its
\* UPDATE selected are still open.
C9_ResolveAtomic ==
    [][\A p \in Procs, store \in StoreOutcomes :
         resolve_hide(p, store) /\ resolve_hide_response(p, store) # None =>
           /\ reports' = reports
           /\ hidden' = hidden
           /\ tx'[p] = NoTx
           /\ \A r \in reports' : r.id \in tx[p].updated => r.resolver = None]_vars

\* A resolve_report(hide=true) has rewritten the open reports of a quote that another
\* connection has hidden since: its hide step fails.
C9_Witness ==
    \E p \in Procs :
      /\ tx[p].op = "resolve" /\ tx[p].hide = Some(TRUE) /\ ~tx[p].inserted
      /\ tx[p].updated # {}
      /\ tx[p].id \in HiddenIds
      /\ resolve_hide_response(p, "ok") = Some(InternalServerError)

\* C10: resolve_report on a quote with no open report is answered 'already resolved
\* or doesn't exist' and opens no transaction, so that it changes neither reports nor
\* hidden records: a resolve transaction only ever rewrites the open reports of its
\* quote, and no step changes or removes a resolver once it is set.
NoOpenReport(id) == ~\E r \in reports : r.quote_id = id /\ r.resolver = None
C10_ResolveNeedsOpenReport ==
    [][/\ \A user \in Users, id \in QuoteIds :
            NoOpenReport(id) =>
              resolve_report_response(user, id, "ok") = Some(BadRequest(
                "Report is either already resolved or doesn't exist."))
       /\ \A p \in Procs :
            tx[p].op = "none" /\ tx'[p].op = "resolve" =>
              /\ tx'[p].updated # {}
              /\ \A r \in reports : r.id \in tx'[p].updated =>
                   r.quote_id = tx'[p].id /\ r.resolver = None
       /\ \A r \in reports : r.resolver # None => r \in reports']_vars

\* A quote has a resolved report and a later, open one of another reporter.
C10_Witness ==
    \E r \in reports, o \in reports :
      r.quote_id = o.quote_id /\ r.resolver # None /\ o.resolver = None /\ r.id < o.id

\* ------------------------------------------------ SpecReport: reports of a quote
\* Quotes are created, reported by several callers, hidden, resolved and deleted
\* over one connection.
NextReport ==
    \/ Create({"alice"}, {<<Shard("bob", Hi)>>}, {"ok"}, MaxQuotes)
    \/ Report({"bob", "carol", "dave"}, {ShortReason, LongReason},
              {"ok", "statement_failed", "commit_failed"}, MaxReports)
    \/ \E id \in QuoteIds : hide_quote(1, "bob", id, LongReason, "ok")
    \/ \E id \in QuoteIds, hide \in {None, Some(TRUE)} :
         resolve_report(1, "dave", id, hide, "ok")
    \/ resolve_hide(1, "ok")
    \/ commit(1, "ok")
    \/ \E id \in QuoteIds : delete_quote("alice", id, "ok")

SpecReport == Init /\ [][NextReport]_vars

ReportedBy(user, id) ==
    \E r \in reports : r.quote_id = id /\ r.submitter_hash = submitter_hash(user)
ReportRejected ==
    BadRequest("You have already reported this quote or quote does not exist")

\* C11: a quote holds at most one report per reporter; report_quote on a stored,
\* not hidden quote is accepted exactly when the caller has no report on it, open or
\* resolved, whatever the reports of other callers; a rejected call adds nothing, and
\* a report row stays for as long as its quote is stored.
C11_OneReportPerReporter ==
    [][/\ \A user \in Users, id \in QuoteIdsStored \ HiddenIds :
            report_quote_response(user, id, "ok") =
              IF ReportedBy(user, id) THEN ReportRejected ELSE Ok
       /\ \A a \in reports', b \in reports' :
            a.quote_id = b.quote_id /\ a.submitter_hash = b.submitter_hash => a = b
       /\ \A r \in reports' : r.id \notin {o.id : o \in reports} =>
            ~\E o \in reports : o.quote_id = r.quote_id
                                /\ o.submitter_hash = r.submitter_hash
       /\ \A r \in reports :
            \/ r.quote_id \notin {q.id : q \in quotes'}
            \/ \E o \in reports' : /\ o.id = r.id /\ o.quote_id = r.quote_id
                                   /\ o.submitter_hash = r.submitter_hash]_vars

\* A quote carries a resolved report of one reporter, who is rejected, and an open
\* report of another, while a third caller is still accepted.
C11_Witness ==
    \E id \in QuoteIdsStored \ HiddenIds, first \in Users, second \in Users, third \in Users :
      /\ \E r \in reports : /\ r.quote_id = id /\ r.resolver # None
                            /\ r.submitter_hash = submitter_hash(first)
      /\ \E r \in reports : /\ r.quote_id = id /\ r.resolver = None
                            /\ r.submitter_hash = submitter_hash(second)
      /\ report_quote_response(first, id, "ok") = ReportRejected
      /\ report_quote_response(third, id, "ok") = Ok

\* C12: report_quote on a quote that is hidden or not stored is rejected for every
\* caller, privileged or not, and every report row that appears belongs to a stored
\* quote with no hidden record at the moment of the insert.
C12_NoReportOfHidden ==
    [][/\ \A user \in Users, id \in QuoteIds :
            id \in HiddenIds \/ id \notin QuoteIdsStored =>
              report_quote_response(user, id, "ok") = ReportRejected
       /\ \A r \in reports' : r.id \notin {o.id : o \in reports} =>
            r.quote_id \in QuoteIdsStored /\ r.quote_id \notin HiddenIds]_vars

\* A hidden quote that a privileged caller, who has not reported it, may not report.
C12_Witness ==
    \E id \in HiddenIds, user \in Users :
      /\ Privileged(user) /\ ~ReportedBy(user, id)
      /\ report_quote_response(user, id, "ok") = ReportRejected
      /\ \E r \in reports : r.quote_id = id

\* The callers the INSERT of hide_quote_by_id selects a row for.
MayHide(user, id) == Privileged(user) \/ user \in Speakers(id)
NotQuoted ==
    BadRequest("Either you are not quoted in this quote or this quote does not exist.")

\* C13: hide_quote with a reason of at least 10 characters on a stored quote with no
\* hidden record runs its insert exactly when the caller is privileged or a speaker
\* of the quote, and answers any other caller, the submitter included, with the
\* rejection; a hide transaction is only ever opened by such a caller, and every
\* hidden record that appears has a privileged caller or a speaker as its actor.
C13_HideEligibility ==
    [][/\ \A user \in Users, id \in QuoteIdsStored \ HiddenIds, reason \in Reasons :
            chars(reason) >= MinReasonLen =>
              hide_quote_response(user, id, reason, "ok") =
                IF MayHide(user, id) THEN None ELSE Some(NotQuoted)
       /\ \A p \in Procs : tx[p].op = "none" /\ tx'[p].op = "hide" =>
            /\ tx'[p].id \in QuoteIdsStored \ HiddenIds
            /\ MayHide(tx'[p].user, tx'[p].id)
       /\ \A p \in Procs : tx[p].op = "hide" /\ commit(p, "ok") =>
            /\ Len(hidden') = Len(hidden) + 1
            /\ hidden'[Len(hidden')] =
                 [quote_id |-> tx[p].id, reason |-> tx[p].reason, actor |-> tx[p].user]
       /\ \A i \in DOMAIN hidden' : i \notin DOMAIN hidden =>
            MayHide(hidden'[i].actor, hidden'[i].quote_id)]_vars

\* A quote hidden by its speaker, who is not privileged, and another stored quote
\* that its submitter may not hide.
C13_Witness ==
    /\ SECURITY_ENABLED
    /\ \E i \in DOMAIN hidden : /\ hidden[i].actor \in Speakers(hidden[i].quote_id)
                                /\ hidden[i].actor \notin Admins
    /\ \E q \in quotes : /\ q.id \notin HiddenIds
                         /\ q.submitter \notin Speakers(q.id)
                         /\ hide_quote_response(q.submitter, q.id, LongReason, "ok")
                              = Some(NotQuoted)

\* ------------------------------------------------------- SpecVote: votes and scores
\* Two callers vote on, and withdraw their votes from, quotes that are created,
\* hidden by their speaker and deleted by their submitter.
NextVote ==
    \/ Create({"alice"}, {<<Shard("bob", Hi)>>}, {"ok"}, MaxQuotes)
    \/ \E user \in {"carol", "dave"}, id \in QuoteIds, vote \in Votes,
          store \in {"ok", "statement_failed", "commit_failed"} :
         vote_quote(user, id, vote, store)
    \/ \E user \in {"carol", "dave"}, id \in QuoteIds,
          store \in {"ok", "statement_failed", "commit_failed"} :
         unvote_quote(user, id, store)
    \/ \E id \in QuoteIds : hide_quote(1, "bob", id, LongReason, "ok")
    \/ commit(1, "ok")
    \/ \E id \in QuoteIds : delete_quote("alice", id, "ok")

SpecVote == Init /\ [][NextVote]_vars

\* C14: at most one vote row exists per quote and voter; an accepted vote leaves the
\* voter's row on the quote holding the value just sent and every other row as it
\* was, so that the same value again changes nothing; and a row is changed or
\* removed only by an accepted vote or unvote of its voter on its quote, or with
\* its quote.
C14_VoteUpsert ==
    [][/\ \A a \in votes', b \in votes' :
            a.quote_id = b.quote_id /\ a.submitter = b.submitter => a = b
       /\ \A user \in Users, id \in QuoteIds, vote \in Votes :
            vote_quote(user, id, vote, "ok") /\ vote_quote_response(user, id, "ok") = Ok =>
              /\ {v \in votes' : v.quote_id = id /\ v.submitter = user}
                   = {[quote_id |-> id, submitter |-> user, vote |-> vote]}
              /\ {v \in votes' : ~(v.quote_id = id /\ v.submitter = user)}
                   = {v \in votes : ~(v.quote_id = id /\ v.submitter = user)}
              /\ ViewerVote(id, user) = Some(vote) => votes' = votes
       /\ \A v \in votes : v \notin votes' =>
            \/ v.quote_id \notin {q.id : q \in quotes'}
            \/ /\ unvote_quote(v.submitter, v.quote_id, "ok")
               /\ unvote_quote_response(v.submitter, v.quote_id, "ok") = Ok
            \/ \E vote \in Votes \ {v.vote} :
                 /\ vote_quote(v.submitter, v.quote_id, vote, "ok")
                 /\ vote_quote_response(v.submitter, v.quote_id, "ok") = Ok]_vars

\* Two voters hold opposite votes on one quote, whose score is therefore 0.
C14_Witness ==
    \E a \in votes, b \in votes :
      /\ a.quote_id = b.quote_id /\ a.submitter # b.submitter
      /\ a.vote = "upvote" /\ b.vote = "downvote"

\* The contribution of one vote to the score of its quote.
Contribution(vote) == IF vote = "upvote" THEN 1 ELSE -1

\* C15: the score a viewer receives with a quote, from get_quote and from the
\* unlimited listing, is the number of stored upvotes of the quote minus the number
\* of its stored downvotes, 0 without votes and the same for every viewer; an
\* accepted unvote changes it by the contribution of the vote it removes.
C15_ScoreIsDerived ==
    [][/\ \A quote \in quotes, viewer \in Users :
            LET ups == Cardinality({v \in votes : v.quote_id = quote.id /\ v.vote = "upvote"})
                downs == Cardinality({v \in votes : v.quote_id = quote.id /\ v.vote = "downvote"})
                one == get_quote(quote.id, viewer, TRUE)
                all == get_quotes(viewer, NoFilterUnlimited, TRUE)
            IN /\ Received(one, quote.id) => one.body.score = ups - downs
               /\ all.status = 200 =>
                    \A i \in DOMAIN all.body :
                      all.body[i].id = quote.id => all.body[i].score = ups - downs
       /\ \A user \in Users, id \in QuoteIds :
            unvote_quote(user, id, "ok") /\ unvote_quote_response(user, id, "ok") = Ok =>
              Score(id)' = Score(id) - Contribution(ViewerVote(id, user)[1])]_vars

\* A quote is received with score 2, and another viewer receives a quote with score -1.
C15_Witness ==
    /\ \E q \in quotes : /\ Received(get_quote(q.id, "alice", TRUE), q.id)
                         /\ get_quote(q.id, "alice", TRUE).body.score = 2
    /\ \E q \in quotes : /\ Received(get_quote(q.id, "bob", TRUE), q.id)
                         /\ get_quote(q.id, "bob", TRUE).body.score = -1

\* ------------------------------------------------- SpecCreate: creation of quotes
\* Callers, one of them with a malformed identifier and one who may have left the
\* directory, submit quotes of 0 to 7 shards; quotes are hidden and deleted.
Malformed == "not a uid"
Creators == {"alice", "bob", "carol", Malformed}
CreateBodies ==
    NewQuotes \cup
    { [i \in 1..MaxShards |-> Shard("bob", Hi)],
      <<Shard("bob", Bye), Shard("alice", Hi)>>,
      <<Shard("zed", Hi)>> }

\* The notifications of a submission: all delivered, the first failed, all failed.
PingOutcomes(body) ==
    {[i \in DOMAIN body |-> i \notin failed] : failed \in {{}, {1}, DOMAIN body}}

NextCreate ==
    \/ Leave({"carol"})
    \/ /\ nextId <= MaxQuotes
       /\ \E user \in Creators, body \in CreateBodies, ldap_ok \in BOOLEAN,
             store \in StoreOutcomes :
            \E pinged \in PingOutcomes(body) : create_quote(user, body, ldap_ok, store, pinged)
    \/ \E user \in {"bob", "dave"}, id \in QuoteIds,
          reason \in {ShortReason, LongReason, WideReason} :
         hide_quote(1, user, id, reason, "ok")
    \/ commit(1, "ok")
    \/ \E user \in {"alice", "carol"}, id \in QuoteIds : delete_quote(user, id, "ok")

SpecCreate == Init /\ [][NextCreate]_vars

\* The rows create_quote commits for a submission.
CreatedQuote(user) == [id |-> nextId, submitter |-> user, timestamp |-> nextId]
CreatedShards(body) ==
    {[quote_id |-> nextId, index |-> i, body |-> body[i].body, speaker |-> body[i].speaker]
        : i \in DOMAIN body}

\* C16: every stored quote owns between 1 and 6 shards, indexed 1..n without gap or
\* duplicate, and every shard belongs to a stored quote; the quote and shard tables
\* change only by a whole accepted submission, whose shards carry the indices of
\* their positions in it, or by the removal of a whole quote; a create_quote whose
\* statement or commit fails leaves both tables as they were.
C16_ShardsOfQuote ==
    [][/\ \A q \in quotes' :
            LET own == {s \in shards' : s.quote_id = q.id}
            IN /\ Cardinality(own) \in 1..MaxShards
               /\ {s.index : s \in own} = 1..Cardinality(own)
       /\ \A s \in shards' : s.quote_id \in {q.id : q \in quotes'}
       /\ quotes' # quotes \/ shards' # shards =>
            \/ /\ quotes' \subseteq quotes
               /\ shards' = {s \in shards : s.quote_id \in {q.id : q \in quotes'}}
            \/ \E user \in Creators, body \in CreateBodies :
                 /\ create_quote_response(user, body, TRUE, "ok") = Ok
                 /\ quotes' = quotes \cup {CreatedQuote(user)}
                 /\ shards' = shards \cup CreatedShards(body)
       /\ \/ quotes' = quotes /\ shards' = shards
          \/ \A user \in Creators, body \in CreateBodies, store \in StoreOutcomes \ {"ok"} :
               ~create_quote(user, body, TRUE, store, [i \in DOMAIN body |-> TRUE])]_vars

\* A stored quote of 6 shards and a stored quote of 2 shards of different speakers.
C16_Witness ==
    /\ \E q \in quotes : Cardinality({s \in shards : s.quote_id = q.id}) = MaxShards
    /\ \E q \in quotes : \E a \in shards, b \in shards :
         /\ a.quote_id = q.id /\ b.quote_id = q.id
         /\ a.index = 1 /\ b.index = 2 /\ a.speaker # b.speaker

\* The caller is the speaker of a shard of the submission.
QuotesSelf(user, body) == \E i \in DOMAIN body : body[i].speaker = user

\* C17: no stored quote has a shard spoken by its submitter: create_quote rejects a
\* submission with a shard spoken by the caller, at whatever position, before it
\* writes, and no step that changes the quotes is such a submission.
C17_NoSelfQuote ==
    [][/\ \A q \in quotes', s \in shards' : s.quote_id = q.id => s.speaker # q.submitter
       /\ \A user \in Creators, body \in CreateBodies :
            QuotesSelf(user, body) =>
              create_quote_response(user, body, TRUE, "ok").status = 400
       /\ \/ quotes' = quotes /\ shards' = shards /\ nextId' = nextId
          \/ \A user \in Creators, body \in CreateBodies :
               QuotesSelf(user, body) =>
                 \A store \in StoreOutcomes, pinged \in PingOutcomes(body) :
                   ~create_quote(user, body, TRUE, store, pinged)]_vars

\* A quote of two shards is stored whose second speaker, submitting the same shards,
\* is told not to quote themself.
C17_Witness ==
    \E q \in quotes, s \in shards :
      /\ s.quote_id = q.id /\ s.index = 2 /\ s.speaker \in members
      /\ \E body \in CreateBodies :
           /\ Len(body) = 2 /\ body[2].speaker = s.speaker /\ body[1].speaker # s.speaker
           /\ create_quote_response(s.speaker, body, TRUE, "ok")
                = BadRequest("Erm... maybe don't quote yourself?")

ReasonTooShort == BadRequest("Reason must be at least 10 characters")

\* C18: a create_quote that fails one of its validations is answered with that error
\* and is no step that changes the store or draws an id; a hide_quote with a reason
\* of fewer than 10 characters is answered with the validation error, and no hide
\* transaction is opened with such a reason.
C18_ValidationBeforeWrite ==
    [][/\ \A user \in Creators, body \in CreateBodies :
            CreateValidation(user, body, TRUE) # None =>
              create_quote_response(user, body, TRUE, "ok").status = 400
       /\ \/ quotes' = quotes /\ shards' = shards /\ nextId' = nextId
          \/ \A user \in Creators, body \in CreateBodies :
               CreateValidation(user, body, TRUE) # None =>
                 \A store \in StoreOutcomes, pinged \in PingOutcomes(body) :
                   ~create_quote(user, body, TRUE, store, pinged)
       /\ \A user \in Users, id \in QuoteIds, reason \in Reasons :
            chars(reason) < MinReasonLen =>
              hide_quote_response(user, id, reason, "ok") = Some(ReasonTooShort)
       /\ \A p \in Procs : tx[p].op = "none" /\ tx'[p].op = "hide" =>
            chars(tx'[p].reason) >= MinReasonLen]_vars

\* The speakers of the shards of a stored quote, in the order of their indices.
SpeakersInOrder(id) ==
    LET own == OrderByIndex({s \in shards : s.quote_id = id})
    IN [i \in DOMAIN own |-> own[i].speaker]

\* C19: notifications are sent only by a step that has committed a new quote, one per
\* shard of that quote and in the order of the shards, whichever of them fail; the
\* quote is stored and the response is the success response whatever their outcomes;
\* and a create_quote whose statement or commit fails sends none.
C19_PingsAfterCommit ==
    [][/\ pings' # <<>> /\ pings' # pings => \E q \in quotes' : q \notin quotes
       /\ \A q \in quotes' : q \notin quotes =>
            /\ [i \in DOMAIN pings' |-> pings'[i].speaker] = SpeakersInOrder(q.id)'
            /\ \E user \in Creators, body \in CreateBodies :
                 /\ create_quote_response(user, body, TRUE, "ok") = Ok
                 /\ quotes' = quotes \cup {CreatedQuote(user)}
                 /\ shards' = shards \cup CreatedShards(body)
                 /\ Len(pings') = Len(body)
       /\ \/ pings' = <<>>
          \/ pings' = pings /\ nextId' = nextId
          \/ \A user \in Creators, body \in CreateBodies, store \in StoreOutcomes \ {"ok"} :
               \A pinged \in PingOutcomes(body) :
                 ~create_quote(user, body, TRUE, store, pinged)]_vars

\* A quote of two shards was just committed; the notification of its first speaker
\* failed and that of its second speaker was delivered.
C19_Witness ==
    /\ Len(pings) = 2
    /\ ~pings[1].ok /\ pings[2].ok
    /\ \E q \in quotes : q.id = nextId - 1 /\ SpeakersInOrder(q.id) = <<pings[1].speaker, pings[2].speaker>>

\* ------------------------------------------------- SpecDelete: deletion of quotes
\* Quotes that carry votes, favorites, reports and hidden records are deleted, or
\* not, on the request of their submitter, their speaker and an administrator.
NextDelete ==
    \/ Create({"alice", "carol"}, {<<Shard("bob", Hi)>>}, {"ok"}, MaxQuotes)
    \/ Vote({"carol"}, Votes, {"ok"})
    \/ Favorite({"carol"}, {"ok"})
    \/ Report({"carol"}, {LongReason}, {"ok"}, MaxViewReports)
    \/ \E id \in QuoteIds : hide_quote(1, "bob", id, LongReason, "ok")
    \/ commit(1, "ok")
    \/ \E user \in {"alice", "bob", "dave"}, id \in QuoteIds,
          store \in {"ok", "statement_failed", "commit_failed"} :
         delete_quote(user, id, store)

SpecDelete == Init /\ [][NextDelete]_vars

NotYours ==
    BadRequest("Either this is not your quote or this quote does not exist.")
IsSubmitter(user, id) == \E q \in quotes : q.id = id /\ q.submitter = user

\* C20: delete_quote is accepted exactly when the caller is the submitter of the
\* stored quote and answers every other call with the rejection; a quote leaves the
\* table only by an accepted delete_quote of its submitter; and a call of another
\* caller, or one whose statement or commit fails, changes no table.
C20_DeleteBySubmitter ==
    [][/\ \A user \in Users, id \in QuoteIds :
            delete_quote_response(user, id, "ok") =
              IF IsSubmitter(user, id) THEN Ok ELSE NotYours
       /\ \A q \in quotes : q \notin quotes' =>
            /\ delete_quote(q.submitter, q.id, "ok")
            /\ quotes' = quotes \ {q}
       /\ \/ UNCHANGED db
          \/ \A user \in Users, id \in QuoteIds, store \in StoreOutcomes :
               ~IsSubmitter(user, id) \/ store # "ok" => ~delete_quote(user, id, store)]_vars

\* A quote was deleted, and a stored, hidden quote with a vote and a report may be
\* deleted neither by its speaker nor by an administrator.
C20_Witness ==
    /\ SECURITY_ENABLED
    /\ nextId > Cardinality(quotes) + 1
    /\ \E q \in quotes :
         /\ q.id \in HiddenIds
         /\ \E v \in votes : v.quote_id = q.id
         /\ \E r \in reports : r.quote_id = q.id
         /\ \A user \in Speakers(q.id) \cup Admins :
              delete_quote_response(user, q.id, "ok") = NotYours

\* Every dependent row references a stored quote.
ReferencesHold ==
    /\ \A s \in shards : s.quote_id \in QuoteIdsStored
    /\ \A v \in votes : v.quote_id \in QuoteIdsStored
    /\ \A f \in favorites : f.quote_id \in QuoteIdsStored
    /\ \A r \in reports : r.quote_id \in QuoteIdsStored
    /\ \A i \in DOMAIN hidden : hidden[i].quote_id \in QuoteIdsStored

\* C21: every shard, vote, favorite, report and hidden record references a stored
\* quote; the step that removes a quote removes exactly its dependent rows with it
\* and leaves those of the other quotes; and on an id that is not stored vote_quote,
\* favorite_quote, report_quote and hide_quote are all refused.
C21_ReferencesHold ==
    [][/\ ReferencesHold'
       /\ quotes' # quotes /\ quotes' \subseteq quotes =>
            LET kept == {q.id : q \in quotes'}
            IN /\ shards' = {s \in shards : s.quote_id \in kept}
               /\ votes' = {v \in votes : v.quote_id \in kept}
               /\ favorites' = {f \in favorites : f.quote_id \in kept}
               /\ reports' = {r \in reports : r.quote_id \in kept}
               /\ hidden' = SelectSeq(hidden, LAMBDA h : h.quote_id \in kept)
       /\ \A user \in Users, id \in QuoteIds \ QuoteIdsStored :
            /\ vote_quote_response(user, id, "ok").status # 200
            /\ favorite_quote_response(user, id, "ok").status # 200
            /\ report_quote_response(user, id, "ok").status # 200
            /\ hide_quote_response(user, id, LongReason, "ok") # None]_vars

\* The only report ever filed is gone with its quote, while another quote is stored
\* with a vote.
C21_Witness ==
    /\ nextReportId > 1 /\ reports = {}
    /\ \E q \in quotes : \E v \in votes : v.quote_id = q.id

\* C22: at most one favorite row exists per quote and user; favorite_quote on a quote
\* that the caller has favorited or that is not stored is answered with the rejection
\* 'already favorited or doesn't exist', and unfavorite_quote on a quote the caller
\* has not favorited with 'not favorited', neither being an internal error.
C22_FavoriteConflicts ==
    /\ \A a \in favorites, b \in favorites :
         a.quote_id = b.quote_id /\ a.username = b.username => a = b
    /\ \A user \in Users, id \in QuoteIds :
         /\ Favorited(id, user) \/ id \notin QuoteIdsStored =>
              favorite_quote_response(user, id, "ok") =
                BadRequest("Quote is either already favorited or doesn't exist.")
         /\ ~Favorited(id, user) =>
              unfavorite_quote_response(user, id, "ok") = BadRequest("Quote is not favorited.")

\* The pages asked for: a limit, a cursor and the hidden filter.
PageParams ==
    {[NoFilter EXCEPT !.limit = limit, !.lt = lt, !.hidden = hide] :
       limit \in {None, Some(Unlimited), Some(0), Some(1), Some(2)},
       lt \in {None, Some(1), Some(2), Some(3)},
       hide \in {None, Some(FALSE)}}

\* The ids a listing carries, in the order of the response.
ListedSeq(r) == [i \in DOMAIN r.body |-> r.body[i].id]

\* The ids below the cursor of the quotes the filters select for the viewer,
\* highest first.
RECURSIVE Descending(_)
Descending(S) ==
    IF S = {} THEN <<>>
    ELSE LET top == CHOOSE a \in S : \A b \in S : a >= b
         IN <<top>> \o Descending(S \ {top})
Eligible(viewer, params) ==
    {q.id : q \in {x \in quotes :
        /\ GetQuotesVisible(x, viewer, params)
        /\ GetQuotesMatches(x, viewer, [params EXCEPT !.lt = None])
        /\ params.lt # None => x.id < params.lt[1]}}
Page(viewer, params) ==
    LET all == Descending(Eligible(viewer, params))
        n == UnwrapOr(params.limit, DefaultLimit)
    IN IF n = Unlimited THEN all ELSE Take(all, n)

MaxUnresolved == 2
RebuildBodies ==
    { <<Shard("bob", Hi)>>,
      <<Shard("carol", Bye), Shard("bob", Hi)>>,
      <<Shard("bob", Bye), Shard("alice", Hi)>>,
      <<Shard("bob", Hi), Shard("carol", Bye), Shard("bob", Bye)>> }

NextRebuild ==
    \/ /\ nextId <= MaxQuotes
       /\ \E user \in {"alice", "bob", "carol"}, body \in RebuildBodies :
            create_quote(user, body, TRUE, "ok", [i \in DOMAIN body |-> TRUE])
    \/ /\ Cardinality(Users \ members) < MaxUnresolved
       /\ \E user \in Users : LeaveOrg(user)
    \/ \E user \in {"bob", "dave"}, id \in QuoteIds : hide_quote(1, user, id, LongReason, "ok")
    \/ commit(1, "ok")
    \/ Vote({"carol"}, Votes, {"ok"})
    \/ Favorite({"carol"}, {"ok"})

SpecRebuild == Init /\ [][NextRebuild]_vars

\* The row sequences the queries hand to shards_to_quotes: the joined rows of any
\* selection of the stored quotes, for any viewer.
RowInputs == {JoinedRows(selected, viewer) : selected \in SUBSET quotes, viewer \in Users}

\* The ordering contract: the rows of one quote are contiguous and their indices
\* ascend from 1.
ContractOrdered(rows) ==
    \A i \in DOMAIN rows :
      IF i = 1 \/ rows[i - 1].id # rows[i].id
      THEN rows[i].index = 1 /\ \A j \in 1..(i - 1) : rows[j].id # rows[i].id
      ELSE rows[i].index = rows[i - 1].index + 1

\* The explicit group-by: one quote per distinct id in the order of first
\* appearance, with the shards of that id in index order and the quote-level
\* fields of its index-1 row.
RECURSIVE FirstIds(_, _)
FirstIds(rows, seen) ==
    IF rows = <<>> THEN <<>>
    ELSE IF Head(rows).id \in seen THEN FirstIds(Tail(rows), seen)
    ELSE <<Head(rows).id>> \o FirstIds(Tail(rows), seen \cup {Head(rows).id})
GroupOf(rows, id) ==
    LET own == SelectSeq(rows, LAMBDA r : r.id = id)
        first == CHOOSE r \in Range(own) : r.index = 1
        byIndex == OrderByIndex(Range(own))
    IN [id |-> id,
        shards |-> [i \in DOMAIN byIndex |->
                      [body |-> byIndex[i].body, speaker |-> byIndex[i].speaker]],
        timestamp |-> first.timestamp,
        score |-> first.score,
        vote |-> first.vote,
        submitter |-> first.submitter,
        hidden |-> IF first.hidden_actor # None /\ first.hidden_reason # None
                   THEN Some([actor |-> first.hidden_actor[1],
                              reason |-> first.hidden_reason[1]])
                   ELSE None,
        favorited |-> first.favorited]
GroupBy(rows) ==
    LET ids == FirstIds(rows, {})
    IN [i \in DOMAIN ids |-> GroupOf(rows, ids[i])]

\* C24: on every input that satisfies the ordering contract, with every identifier
\* resolving, shards_to_quotes does not fail and returns the explicit group-by of
\* its rows.
C24_RebuildIsGroupBy ==
    \A rows \in RowInputs :
      /\ ContractOrdered(rows)
      /\ ShardsLoop(rows, <<>>, Users) = [panic |-> FALSE, quotes |-> GroupBy(rows)]
      /\ members = Users =>
           shards_to_quotes(rows, TRUE)
             = [err |-> FALSE, panic |-> FALSE, quotes |-> GroupBy(rows)]

\* Two quotes are stored, one of three shards and hidden, one voted on and
\* favorited by the viewer, and both are selected.
C24_Witness ==
    /\ members = Users
    /\ \E a \in quotes, b \in quotes :
         /\ a.id # b.id
         /\ Cardinality({s \in shards : s.quote_id = a.id}) = 3
         /\ Cardinality({s \in shards : s.quote_id = b.id}) = 2
         /\ a.id \in HiddenIds
         /\ ViewerVote(b.id, "carol") # None /\ Favorited(b.id, "carol")
         /\ Len(ShardsLoop(JoinedRows({a, b}, "carol"), <<>>, Users).quotes) = 2

\* The shards of the output with the id of the quote object that carries them, and
\* the rows of the input whose speaker resolves, in order.
RECURSIVE Attached(_)
Attached(out) ==
    IF out = <<>> THEN <<>>
    ELSE [i \in DOMAIN Head(out).shards |->
            [id |-> Head(out).id, body |-> Head(out).shards[i].body,
             speaker |-> Head(out).shards[i].speaker]] \o Attached(Tail(out))
SpeakerResolves(rows, directory) ==
    LET kept == SelectSeq(rows, LAMBDA r : r.speaker \in directory)
    IN [i \in DOMAIN kept |->
          [id |-> kept[i].id, body |-> kept[i].body, speaker |-> kept[i].speaker]]

\* C25: for contract-ordered rows and any directory, shards_to_quotes ends normally,
\* drops exactly the rows whose speaker does not resolve, and leaves every other
\* shard on the quote object of its own quote id.
C25_DropsUnresolvedSpeakers ==
    \A rows \in RowInputs :
      /\ ~shards_to_quotes(rows, TRUE).panic
      /\ Attached(shards_to_quotes(rows, TRUE).quotes) = SpeakerResolves(rows, members)

\* C27: get_quote and get_quotes answer with a result or an error response in every
\* reachable store, for every viewer and every outcome of the directory:
\* shards_to_quotes never pushes onto a missing last quote and get_quote never takes
\* the first element of an empty list.
C27_QueryNeverAborts ==
    \A viewer \in Users, ldap_ok \in BOOLEAN :
      /\ \A id \in QuoteIds : get_quote(id, viewer, ldap_ok).status # Aborted.status
      /\ \A params \in {NoFilter, NoFilterUnlimited} :
           get_quotes(viewer, params, ldap_ok).status # Aborted.status

\* ------------------------------------------------------------------ get_reports
\* SELECT ... FROM quotes having an open report, joined to their open reports,
\* ORDER BY pq.id, r.id
RECURSIVE OrderByQuoteAndReport(_)
OrderByQuoteAndReport(S) ==
    IF S = {} THEN <<>>
    ELSE LET first == CHOOSE x \in S : \A y \in S :
                        \/ x.quote_id < y.quote_id
                        \/ x.quote_id = y.quote_id /\ x.report_id <= y.report_id
         IN <<first>> \o OrderByQuoteAndReport(S \ {first})
ReportedQuotes ==
    {q \in quotes : \E r \in reports : r.quote_id = q.id /\ r.resolver = None}
ReportedQuoteShards ==
    OrderByQuoteAndReport(UNION {
      {[quote_id |-> q.id, quote_submitter |-> q.submitter, quote_hidden |-> q.id \in HiddenIds,
        report_id |-> r.id, report_reason |-> r.reason, report_resolver |-> r.resolver] :
         r \in {x \in reports : x.quote_id = q.id /\ x.resolver = None}} :
      q \in ReportedQuotes})

\* One entry per quote id with the reports of its rows in row order; the entries come
\* out of a hash map, in no particular order.
format_reports(rows) ==
    {[quote_id |-> id,
      reports |-> LET own == SelectSeq(rows, LAMBDA r : r.quote_id = id)
                  IN [i \in DOMAIN own |->
                        [reason |-> own[i].report_reason, id |-> own[i].report_id]]] :
       id \in {rows[i].quote_id : i \in DOMAIN rows}}

get_reports(store) ==
    IF StatementFailed(store) THEN InternalServerError
    ELSE Json(format_reports(ReportedQuoteShards))

\* ------------------------------------- SpecResolve: a quote with several reports
\* One quote is reported by up to three members while two connections resolve its
\* reports, with and without hiding it.
MaxOpenReports == 3
NextResolve ==
    \/ Create({"alice"}, {<<Shard("bob", Hi)>>}, {"ok"}, MaxModerationQuotes)
    \/ Report({"alice", "bob", "carol"}, {ShortReason, LongReason}, {"ok"}, MaxOpenReports)
    \/ \E p \in Procs, user \in {"carol", "dave"}, id \in QuoteIds, hide \in HideParams,
          store \in {"ok", "statement_failed"} : resolve_report(p, user, id, hide, store)
    \/ \E p \in Procs, store \in {"ok", "statement_failed"} : resolve_hide(p, store)
    \/ \E p \in Procs, store \in {"ok", "commit_failed"} : commit(p, store)

SpecResolve == Init /\ [][NextResolve]_vars

Listed(id) == \E e \in get_reports("ok").body : e.quote_id = id
Rejected(user, id) ==
    resolve_report_response(user, id, "ok")
      = Some(BadRequest("Report is either already resolved or doesn't exist."))
Several(p) ==
    /\ tx[p].op = "resolve"
    /\ Cardinality({r.submitter_hash : r \in {x \in reports : x.id \in tx[p].updated}}) >= 2
HiddenWithStoredReason(p) ==
    \E i \in DOMAIN hidden' :
      /\ i \notin DOMAIN hidden
      /\ hidden'[i].quote_id = tx[p].id
      /\ hidden'[i].reason \in {r.reason : r \in {x \in reports : x.id \in tx[p].updated}}

\* C26 as stated: when resolve_report has rewritten several open reports of distinct
\* reporters and commits, the caller is the resolver of each of them, the quote has
\* no open report afterwards, get_reports no longer lists it, a second resolve_report
\* is rejected, and with hide=true the hidden reason is the reason of one of them.
C26_ResolveClosesQuote ==
    [][\A p \in Procs, id \in QuoteIds :
         Several(p) /\ tx[p].id = id /\ commit(p, "ok") =>
           /\ \A r \in reports : r.id \in tx[p].updated =>
                [r EXCEPT !.resolver = Some(tx[p].user)] \in reports'
           /\ OpenReports(id)' = {}
           /\ ~Listed(id)'
           /\ \A user \in Users : Rejected(user, id)'
           /\ tx[p].hide = Some(TRUE) => HiddenWithStoredReason(p)]_vars

\* C26, amended: the caller becomes the resolver of every report that was open when
\* the UPDATE ran, and the reports filed since stay open; when none has been filed
\* since, the quote has no open report after the commit, get_reports no longer lists
\* it and a second resolve_report is rejected; with hide=true the hidden reason is the
\* stored reason of one of the reports resolved.
C26_ResolveClosesReportsSeen ==
    [][\A p \in Procs, id \in QuoteIds :
         Several(p) /\ tx[p].id = id /\ commit(p, "ok") =>
           /\ \A r \in reports : r.id \in tx[p].updated =>
                [r EXCEPT !.resolver = Some(tx[p].user)] \in reports'
           /\ {r.id : r \in OpenReports(id)'} = {r.id : r \in OpenReports(id)} \ tx[p].updated
           /\ {r.id : r \in OpenReports(id)} \subseteq tx[p].updated =>
                /\ OpenReports(id)' = {}
                /\ ~Listed(id)'
                /\ \A user \in Users : Rejected(user, id)'
           /\ tx[p].hide = Some(TRUE) => HiddenWithStoredReason(p)]_vars

\* Two reports of distinct reporters and different reasons were resolved by one
\* caller who hid the quote with the reason of one of them; the quote is no longer
\* listed and a second resolve is rejected.
C26_Witness ==
    \E a \in reports, b \in reports, i \in DOMAIN hidden :
      /\ a.quote_id = b.quote_id /\ a.submitter_hash # b.submitter_hash
      /\ a.reason # b.reason
      /\ a.resolver # None /\ a.resolver = b.resolver
      /\ hidden[i].quote_id = a.quote_id /\ hidden[i].actor = a.resolver[1]
      /\ hidden[i].reason \in {a.reason, b.reason}
      /\ ~Listed(a.quote_id) /\ Rejected("dave", a.quote_id)
      /\ \A p \in Procs : tx[p].op = "none"

====
